---------------------------- MODULE Spec2Model ----------------------------
(***************************************************************************)
(* Model of local_runner.py: the expectation engine                        *)
(* (_validate_expectations), the staging normalizer (stage_frames), the    *)
(* fact aggregator (build_fact), the artifact writer (write_outputs) and   *)
(* the driver run_pipeline.                                                *)
(*                                                                         *)
(* Three specifications share the module:                                  *)
(*   SpecValidate  one call of _validate_expectations, rule by rule;       *)
(*   SpecFact      build_fact on a staging mapping, and again on a         *)
(*                 reordering of the same mapping;                         *)
(*   Spec          one run of run_pipeline over the four domains.          *)
(***************************************************************************)
EXTENDS Integers, Sequences, FiniteSets, TLC

VARIABLES
    \* ---- _validate_expectations (one call) ----
    df,            \* the dataframe under validation
    expectations,  \* cfg["expectations"], the suite
    vpc,           \* "loop" | "returned" | "raised"
    vidx,          \* position of the for loop in the suite (1-based)
    messages,      \* the local list `messages`
    returned,      \* what the caller receives (<<>> unless vpc = "returned")
    evaluated,     \* history: the suite positions whose rule was evaluated
    exc,           \* the exception that left the function, NoExc if none
    \* ---- build_fact ----
    staging,       \* the staging mapping, in insertion order
    fact,          \* the fact table (sequence of rows)
    fpc,           \* position of SpecFact / marker of a built fact
    fact0,         \* SpecFact: the fact table of the first build
    \* ---- run_pipeline ----
    pc,            \* position in run_pipeline
    files,         \* the input files on disk, by domain
    suites,        \* the expectation files, by domain
    raw_frames,    \* the dict raw_frames, in insertion order
    outputs,       \* artifact files written by this run, in write order
    disk_ok,       \* whether the destination accepts writes
    log,           \* history: the steps the run has executed
    error          \* exception surfaced to the caller of run_pipeline

vvars == <<df, expectations, vpc, vidx, messages, returned, evaluated, exc>>
fvars == <<staging, fact, fpc, fact0>>
pvars == <<pc, files, suites, raw_frames, outputs, disk_ok, log, error>>
vars == <<vvars, fvars, pvars>>

-----------------------------------------------------------------------------
(* Bounds of the model.                                                    *)
MaxRules == 3      \* rules in a suite (SpecValidate)
MaxRecords == 1    \* records in a dataframe under validation
MaxRows == 3       \* rows over the three aggregated staging tables (SpecFact)
MaxReorderRows == 2 \* the same, for the tables that are reordered (SpecReorder)
TicksPerDay == 2   \* time-of-day resolution of a raw timestamp

-----------------------------------------------------------------------------
(* Dynamically typed scalars.  Every scalar is a record of one shape so    *)
(* that any two can be compared: t is the runtime type, i the number of an *)
(* int or float (the model's floats are whole) / the tick of a timestamp / *)
(* the day of a date, s the characters of a str.                           *)
NULL == [t |-> "null", i |-> 0, s |-> <<>>]
IntV(n) == [t |-> "int", i |-> n, s |-> <<>>]
FloatV(n) == [t |-> "float", i |-> n, s |-> <<>>]
StrV(chars) == [t |-> "str", i |-> 0, s |-> chars]
TsV(tick) == [t |-> "ts", i |-> tick, s |-> <<>>]
DateV(day) == [t |-> "date", i |-> day, s |-> <<>>]
IsNull(v) == v.t = "null"

\* Characters in code-point order, for the comparison of strings.
Alphabet == <<"\n", " ", ".", "0", "1", "2", "3", "4", "5", "6", "7", "8", "9",
              "@", "S", "a", "c", "d", "e", "n", "o", "p", "r", "t", "v">>
CharRank(c) == CHOOSE k \in 1..Len(Alphabet) : Alphabet[k] = c

RECURSIVE StrLess(_, _)
StrLess(a, b) ==
    IF b = <<>> THEN FALSE
    ELSE IF a = <<>> THEN TRUE
    ELSE IF Head(a) = Head(b) THEN StrLess(Tail(a), Tail(b))
    ELSE CharRank(Head(a)) < CharRank(Head(b))

\* a < b for two non-null scalars of one runtime type.
ValLess(a, b) == IF a.t = "str" THEN StrLess(a.s, b.s) ELSE a.i < b.i

-----------------------------------------------------------------------------
(* Dataframes: [columns |-> sequence of names, rows |-> sequence of rows], *)
(* a row being a function from the column names to scalars.                *)
Column(frame, column) == [k \in 1..Len(frame.rows) |-> frame.rows[k][column]]
HasColumn(frame, column) == \E k \in 1..Len(frame.columns) : frame.columns[k] = column
Range(f) == {f[k] : k \in DOMAIN f}

\* The dtype pandas infers for a column: int64 when every value is an int,
\* float64 when ints are mixed with missing values, object otherwise.
Dtype(col) ==
    IF \A k \in DOMAIN col : col[k].t = "int" THEN "int64"
    ELSE IF \A k \in DOMAIN col : col[k].t \in {"int", "float", "null"} THEN "float64"
    ELSE "object"

Digit(n) == SubSeq(<<"0", "1", "2", "3", "4", "5", "6", "7", "8", "9">>, n + 1, n + 1)
RECURSIVE Digits(_)
Digits(n) == IF n < 10 THEN Digit(n) ELSE Digits(n \div 10) \o Digit(n % 10)

\* Series.astype(str) on one value of a column of the given dtype.
AsStr(v, dtype) ==
    IF IsNull(v) THEN <<"n", "a", "n">>
    ELSE IF v.t \in {"int", "float"}
         THEN IF dtype = "float64" THEN Digits(v.i) \o <<".", "0">> ELSE Digits(v.i)
    ELSE v.s

-----------------------------------------------------------------------------
(* Regular expressions: a sequence of atoms, each a character class taken  *)
(* once or (plus) one or more times, optionally closed by a `$`.           *)
RECURSIVE MatchEnds(_, _, _)
\* The positions at which a match of `atoms` that starts after position j
\* of s can end.
MatchEnds(atoms, s, j) ==
    IF atoms = <<>> THEN {j}
    ELSE LET a == Head(atoms)
             runs == {k \in (j + 1)..Len(s) :
                         /\ \A m \in (j + 1)..k : s[m] \in a.cls
                         /\ (a.plus \/ k = j + 1)}
         IN  UNION {MatchEnds(Tail(atoms), s, k) : k \in runs}

\* `$` matches at the end of the text and before a newline that ends it.
AtEnd(s, k) == k = Len(s) \/ (k = Len(s) - 1 /\ s[Len(s)] = "\n")

\* Faulty variant of ReMatch: re.fullmatch, the whole text must be consumed.
ReMatch_fullmatch(regex, s) ==
    \E k \in MatchEnds(regex.atoms, s, 0) : k = Len(s)

\* Series.str.match: re.match, anchored at the start of the text only.
ReMatch(regex, s) ==
    \E k \in MatchEnds(regex.atoms, s, 0) : regex.eol => AtEnd(s, k)

-----------------------------------------------------------------------------
(* Expectation suites.  A rule is exp = {"expectation_type", "kwargs"};    *)
(* the kwargs a kind does not read are left at their defaults, and an      *)
(* absent min_value (kwargs.get returns None) is NULL.                     *)
NoRegex == [atoms |-> <<>>, eol |-> FALSE]
Exp(etype, column, column_list, min_value, regex) ==
    [expectation_type |-> etype, column |-> column, column_list |-> column_list,
     min_value |-> min_value, regex |-> regex]
ColumnsMatch(column_list) ==
    Exp("expect_table_columns_to_match_ordered_list", "", column_list, NULL, NoRegex)
NotNull(column) == Exp("expect_column_values_to_not_be_null", column, <<>>, NULL, NoRegex)
Between(column, min_value) ==
    Exp("expect_column_values_to_be_between", column, <<>>, min_value, NoRegex)
MatchRegex(column, regex) ==
    Exp("expect_column_values_to_match_regex", column, <<>>, NULL, regex)
RecognizedKinds ==
    {"expect_table_columns_to_match_ordered_list", "expect_column_values_to_not_be_null",
     "expect_column_values_to_be_between", "expect_column_values_to_match_regex"}

\* What one pass of the loop body yields: a pass message (ok) or the
\* exception it raises.  text is the fixed part of the f-string, arg the
\* column or kind it names.
Pass(text, arg) == [ok |-> TRUE, cls |-> "", text |-> text, arg |-> arg]
Raise(cls, text, arg) == [ok |-> FALSE, cls |-> cls, text |-> text, arg |-> arg]
NoExc == [ok |-> TRUE, cls |-> "", text |-> "", arg |-> ""]

\* (df[column] < min_value).any(): a comparison with a missing value is False.
AnyBelow(col, min_value) ==
    \E k \in DOMAIN col : ~IsNull(col[k]) /\ ValLess(col[k], min_value)

\* df[column].astype(str).str.match(regex).all()
AllMatch(col, regex) ==
    \A k \in DOMAIN col : ReMatch(regex, AsStr(col[k], Dtype(col)))

\* Faulty variant of Unsupported: an unrecognized kind is passed over instead of
\* failing the validation.
Unsupported_skipped(etype) == Pass("Skipped", etype)

\* The final else of the chain: an unrecognized expectation_type.
Unsupported(etype) == Raise("ExpectationFailure", "Unsupported expectation type", etype)

\* The body of the for loop of _validate_expectations for one rule.
EvalRule(frame, exp) ==
    LET etype == exp.expectation_type
        column == exp.column
    IN
    IF etype = "expect_table_columns_to_match_ordered_list" THEN
        IF frame.columns # exp.column_list
        THEN Raise("ExpectationFailure", "Column order mismatch", "")
        ELSE Pass("Column order validated", "")
    ELSE IF etype = "expect_column_values_to_not_be_null" THEN
        IF ~HasColumn(frame, column) THEN Raise("KeyError", "", column)
        ELSE IF \E k \in DOMAIN Column(frame, column) : IsNull(Column(frame, column)[k])
        THEN Raise("ExpectationFailure", "Null values found in", column)
        ELSE Pass("not null validated", column)
    ELSE IF etype = "expect_column_values_to_be_between" THEN
        IF IsNull(exp.min_value) THEN Pass("minimum validated", column)
        ELSE IF ~HasColumn(frame, column) THEN Raise("KeyError", "", column)
        ELSE IF \E k \in DOMAIN Column(frame, column) :
                    Column(frame, column)[k].t \notin {"null", exp.min_value.t}
        THEN Raise("TypeError", "", column)
        ELSE IF AnyBelow(Column(frame, column), exp.min_value)
        THEN Raise("ExpectationFailure", "Values below minimum in", column)
        ELSE Pass("minimum validated", column)
    ELSE IF etype = "expect_column_values_to_match_regex" THEN
        IF ~HasColumn(frame, column) THEN Raise("KeyError", "", column)
        ELSE IF ~AllMatch(Column(frame, column), exp.regex)
        THEN Raise("ExpectationFailure", "Regex validation failed for", column)
        ELSE Pass("regex validated", column)
    ELSE Unsupported(etype)

RECURSIVE ValidateFrom(_, _, _, _)
ValidateFrom(frame, suite, k, acc) ==
    IF k > Len(suite) THEN [raised |-> FALSE, messages |-> acc, exc |-> NoExc]
    ELSE LET o == EvalRule(frame, suite[k])
         IN  IF o.ok THEN ValidateFrom(frame, suite, k + 1, Append(acc, o))
             ELSE [raised |-> TRUE, messages |-> <<>>, exc |-> o]

\* _validate_expectations(df, expectation_file) as one call: the messages
\* it returns, or the exception that leaves it.
ValidateExpectations(frame, suite) == ValidateFrom(frame, suite, 1, <<>>)
-----------------------------------------------------------------------------
(* SpecValidate: one call of _validate_expectations, one rule per step.    *)

\* The inputs: dataframes over the columns email and amount, suites over
\* the four recognized kinds and one unrecognized kind.
A == StrV(<<"a">>)
ValidationRows ==
    {[email |-> A, amount |-> IntV(2)],
     [email |-> StrV(<<"a", "@">>), amount |-> IntV(2)],
     [email |-> StrV(<<"@", "a">>), amount |-> IntV(2)],
     [email |-> NULL, amount |-> IntV(2)],
     [email |-> A, amount |-> IntV(0)],
     [email |-> A, amount |-> NULL]}
ColumnLists == {<<"email", "amount">>, <<"amount", "email">>, <<"email">>}
\* The rows of a dataframe of the given columns.
RowsOf(columns) ==
    {[c \in Range(columns) |-> r[c]] : r \in ValidationRows}

APlus == [atoms |-> <<[cls |-> {"a"}, plus |-> TRUE]>>, eol |-> FALSE]   \* a+
APlusEol == [atoms |-> <<[cls |-> {"a"}, plus |-> TRUE]>>, eol |-> TRUE] \* ^a+$
UnknownKind == Exp("expect_unknown_thing", "", <<>>, NULL, NoRegex)
Rules ==
    {ColumnsMatch(<<"email", "amount">>), NotNull("email"),
     Between("amount", IntV(1)), Between("amount", NULL),
     MatchRegex("email", APlus), MatchRegex("email", APlusEol), UnknownKind}

ValidateInit ==
    /\ \E cl \in ColumnLists, n \in 0..MaxRecords :
         \E rs \in [1..n -> RowsOf(cl)] : df = [columns |-> cl, rows |-> rs]
    /\ \E n \in 0..MaxRules : expectations \in [1..n -> Rules]
    /\ vpc = "loop"
    /\ vidx = 1
    /\ messages = <<>>
    /\ returned = <<>>
    /\ evaluated = <<>>
    /\ exc = NoExc
    /\ staging = <<>> /\ fact = <<>> /\ fact0 = <<>> /\ fpc = "idle"
    /\ pc = "idle" /\ files = <<>> /\ suites = <<>> /\ raw_frames = <<>>
    /\ outputs = <<>> /\ disk_ok = TRUE /\ log = <<>> /\ error = NoExc

\* Faulty variant of ValidateStep: a failing rule is recorded and the loop goes on
\* to the rules after it; the last failure is the one raised.
ValidateStep_keeps_going ==
    /\ vpc = "loop"
    /\ vidx <= Len(expectations)
    /\ LET o == EvalRule(df, expectations[vidx])
       IN  /\ evaluated' = Append(evaluated, vidx)
           /\ messages' = IF o.ok THEN Append(messages, o) ELSE messages
           /\ exc' = IF o.ok THEN exc ELSE o
           /\ vidx' = vidx + 1
           /\ vpc' = IF ~o.ok /\ vidx = Len(expectations) THEN "raised" ELSE "loop"
    /\ UNCHANGED <<df, expectations, returned, fvars, pvars>>

\* Faulty variant of ValidateStep: the messages gathered so far are handed to the
\* caller when a rule fails.
ValidateStep_partial_messages ==
    /\ vpc = "loop"
    /\ vidx <= Len(expectations)
    /\ LET o == EvalRule(df, expectations[vidx])
       IN  /\ evaluated' = Append(evaluated, vidx)
           /\ IF o.ok
              THEN /\ messages' = Append(messages, o)
                   /\ vidx' = vidx + 1
                   /\ UNCHANGED <<vpc, exc, returned>>
              ELSE /\ vpc' = "raised"
                   /\ exc' = o
                   /\ returned' = messages
                   /\ UNCHANGED <<messages, vidx>>
    /\ UNCHANGED <<df, expectations, fvars, pvars>>

\* One pass of the for loop: the rule at vidx either appends its message or
\* raises, which leaves the function with nothing returned.
ValidateStep ==
    /\ vpc = "loop"
    /\ vidx <= Len(expectations)
    /\ LET o == EvalRule(df, expectations[vidx])
       IN  /\ evaluated' = Append(evaluated, vidx)
           /\ IF o.ok
              THEN /\ messages' = Append(messages, o)
                   /\ vidx' = vidx + 1
                   /\ UNCHANGED <<vpc, exc>>
              ELSE /\ vpc' = "raised"
                   /\ exc' = o
                   /\ UNCHANGED <<messages, vidx>>
    /\ UNCHANGED <<df, expectations, returned, fvars, pvars>>

\* return messages, once the suite is exhausted.
ValidateReturn ==
    /\ vpc = "loop"
    /\ vidx > Len(expectations)
    /\ vpc' = "returned"
    /\ returned' = messages
    /\ UNCHANGED <<df, expectations, vidx, messages, evaluated, exc, fvars, pvars>>
-----------------------------------------------------------------------------
(* Dates.  A raw dt value is a timestamp (tick = day * TicksPerDay + time  *)
(* of day), a calendar date, a missing value, or text that is no date.     *)

\* pd.to_datetime on one value; Unparsable when it raises.
Unparsable == [t |-> "error", i |-> 0, s |-> <<>>]
ToDatetime(v) ==
    IF IsNull(v) THEN NULL
    ELSE IF v.t = "ts" THEN v
    ELSE IF v.t = "date" THEN TsV(v.i * TicksPerDay)
    ELSE Unparsable

\* Series.dt.date on one timestamp: the time of day is dropped.
DtDate(ts) == IF IsNull(ts) THEN NULL ELSE DateV(ts.i \div TicksPerDay)

-----------------------------------------------------------------------------
(* The staging mapping is a dict: entries [name, frame] in insertion       *)
(* order, read by name.                                                    *)

\* Faulty variant of Lookup: the tables are taken by position, in the order
\* stage_frames inserts them.
Lookup_by_position(mapping, name) ==
    mapping[CHOOSE k \in 1..4 :
                <<"stg_erp_orders", "stg_crm_leads", "stg_products", "stg_web_events">>[k]
                    = name].frame

\* staging[name]
Lookup(mapping, name) ==
    mapping[CHOOSE k \in DOMAIN mapping : mapping[k].name = name].frame

KeyOf(row) == <<row["store_id"], row["dt"]>>
KeyLess(a, b) == ValLess(a[1], b[1]) \/ (a[1] = b[1] /\ ValLess(a[2], b[2]))

RECURSIVE SortKeys(_)
\* The keys of an index in lexicographic order, as groupby (sort=True) and
\* an outer join leave them.
SortKeys(keys) ==
    IF keys = {} THEN <<>>
    ELSE LET m == CHOOSE x \in keys : \A y \in keys \ {x} : KeyLess(x, y)
         IN  <<m>> \o SortKeys(keys \ {m})

\* The group keys of groupby(["store_id", "dt"]): rows with a missing key
\* value are dropped (dropna=True is the default).
GroupKeys(rows) ==
    {KeyOf(rows[k]) : k \in {j \in DOMAIN rows :
                                ~IsNull(rows[j]["store_id"]) /\ ~IsNull(rows[j]["dt"])}}

RowsOfKey(rows, key) == SelectSeq(rows, LAMBDA r : KeyOf(r) = key)

RECURSIVE SumSkipNa(_, _)
\* "sum": missing values are skipped, an empty sum is 0.
SumSkipNa(rows, column) ==
    IF rows = <<>> THEN 0
    ELSE (IF IsNull(Head(rows)[column]) THEN 0 ELSE Head(rows)[column].i)
         + SumSkipNa(Tail(rows), column)

\* Faulty variant of CountNonNull: len(), every row counts.
CountNonNull_size(rows, column) == Len(rows)

\* "count": the number of non-missing values of the column.
CountNonNull(rows, column) ==
    Cardinality({k \in DOMAIN rows : ~IsNull(rows[k][column])})

\* lambda s: (s == "converted").sum()
Converted == StrV(<<"c", "o", "n", "v", "e", "r", "t", "e", "d">>)
CountConverted(rows) ==
    Cardinality({k \in DOMAIN rows : rows[k]["status"] = Converted})

OrdersAgg(rows) ==
    [revenue |-> FloatV(SumSkipNa(rows, "order_value")),
     order_count |-> IntV(CountNonNull(rows, "order_id"))]
LeadsAgg(rows) == [converted_leads |-> IntV(CountConverted(rows))]
WebAgg(rows) == [sessions |-> IntV(CountNonNull(rows, "event_id"))]

IndexRow(key) == [store_id |-> key[1], dt |-> key[2]]

\* staging["stg_erp_orders"].groupby(["store_id", "dt"]).agg(...): one row
\* per group key, in key order.  Likewise for the leads and the web events.
GroupOrders(rows) ==
    LET ks == SortKeys(GroupKeys(rows))
    IN  [k \in 1..Len(ks) |-> IndexRow(ks[k]) @@ OrdersAgg(RowsOfKey(rows, ks[k]))]
GroupLeads(rows) ==
    LET ks == SortKeys(GroupKeys(rows))
    IN  [k \in 1..Len(ks) |-> IndexRow(ks[k]) @@ LeadsAgg(RowsOfKey(rows, ks[k]))]
GroupWeb(rows) ==
    LET ks == SortKeys(GroupKeys(rows))
    IN  [k \in 1..Len(ks) |-> IndexRow(ks[k]) @@ WebAgg(RowsOfKey(rows, ks[k]))]

\* The values of the columns `cols` that `rows` holds for `key`, missing
\* when it has no row for that key.
ValuesAt(rows, key, cols) ==
    IF \E k \in DOMAIN rows : KeyOf(rows[k]) = key
    THEN [c \in cols |-> rows[CHOOSE k \in DOMAIN rows : KeyOf(rows[k]) = key][c]]
    ELSE [c \in cols |-> NULL]

\* Faulty variant of JoinOuter: how="left", only the keys of the left frame.
JoinOuter_left(left, right, lcols, rcols) ==
    [k \in DOMAIN left |->
        IndexRow(KeyOf(left[k])) @@ ValuesAt(left, KeyOf(left[k]), lcols)
                                 @@ ValuesAt(right, KeyOf(left[k]), rcols)]

\* left.join(right, how="outer"): the union of the two indexes, sorted.
JoinOuter(left, right, lcols, rcols) ==
    LET ks == SortKeys({KeyOf(left[k]) : k \in DOMAIN left}
                       \cup {KeyOf(right[k]) : k \in DOMAIN right})
    IN  [k \in 1..Len(ks) |->
            IndexRow(ks[k]) @@ ValuesAt(left, ks[k], lcols) @@ ValuesAt(right, ks[k], rcols)]

Metrics == {"revenue", "order_count", "converted_leads", "sessions"}

\* fact[metrics] = fact[metrics].fillna(0), on one row.
FillNa(row) ==
    [c \in DOMAIN row |-> IF c \in Metrics /\ IsNull(row[c]) THEN IntV(0) ELSE row[c]]

\* fact["dt"] = pd.to_datetime(fact["dt"]).dt.date, on one row.
NormalizeDt(row) == [row EXCEPT !["dt"] = DtDate(ToDatetime(row["dt"]))]

\* r1 sorts before r2 under sort_values(by), by a list of two columns.
RowLess(r1, r2, by, ascending) ==
    LET a == IF ascending THEN r1 ELSE r2
        b == IF ascending THEN r2 ELSE r1
    IN  \/ ValLess(a[by[1]], b[by[1]])
        \/ (a[by[1]] = b[by[1]] /\ ValLess(a[by[2]], b[by[2]]))

RECURSIVE SortRowsBy(_, _, _)
\* The rows in the order of `by`; rows of equal keys keep their order.
SortRowsBy(rows, by, ascending) ==
    IF rows = <<>> THEN <<>>
    ELSE LET m == CHOOSE k \in DOMAIN rows :
                      /\ \A j \in DOMAIN rows : ~RowLess(rows[j], rows[k], by, ascending)
                      /\ \A j \in 1..(k - 1) : RowLess(rows[k], rows[j], by, ascending)
         IN  <<rows[m]>>
             \o SortRowsBy(SubSeq(rows, 1, m - 1) \o SubSeq(rows, m + 1, Len(rows)),
                           by, ascending)

\* Faulty variant of SortValues: sort_values(["dt", "store_id"]).
SortValues_dt_first(rows) == SortRowsBy(rows, <<"dt", "store_id">>, TRUE)

\* fact.sort_values(["store_id", "dt"]).reset_index(drop=True)
SortValues(rows) == SortRowsBy(rows, <<"store_id", "dt">>, TRUE)

\* build_fact(staging): the rows of the fact table.
BuildFact(mapping) ==
    LET orders == GroupOrders(Lookup(mapping, "stg_erp_orders").rows)
        leads == GroupLeads(Lookup(mapping, "stg_crm_leads").rows)
        web == GroupWeb(Lookup(mapping, "stg_web_events").rows)
        joined == JoinOuter(JoinOuter(orders, leads, {"revenue", "order_count"},
                                      {"converted_leads"}),
                            web, {"revenue", "order_count", "converted_leads"}, {"sessions"})
        filled == [k \in DOMAIN joined |-> NormalizeDt(FillNa(joined[k]))]
    IN  SortValues(filled)
-----------------------------------------------------------------------------
(* stage_frames.                                                           *)
StagingColumns(name) ==
    CASE name = "stg_erp_orders" ->
            <<"order_id", "customer_id", "store_id", "dt", "order_value", "status">>
      [] name = "stg_crm_leads" ->
            <<"lead_id", "name", "email", "source", "status", "store_id", "dt">>
      [] name = "stg_products" ->
            <<"product_id", "name", "category", "price", "active", "store_id", "dt">>
      [] name = "stg_web_events" ->
            <<"event_id", "visitor_id", "store_id", "dt", "page", "event_type", "metadata">>

Ok(frame) == [ok |-> TRUE, frame |-> frame, exc |-> NoExc]
Failed(e) == [ok |-> FALSE, frame |-> [columns |-> <<>>, rows |-> <<>>], exc |-> e]

\* _ensure_date_column(df): df["dt"] = pd.to_datetime(df["dt"]).dt.date
EnsureDateColumn(frame) ==
    IF ~HasColumn(frame, "dt") THEN Failed(Raise("KeyError", "", "dt"))
    ELSE IF \E k \in DOMAIN frame.rows : ToDatetime(frame.rows[k]["dt"]) = Unparsable
    THEN Failed(Raise("ValueError", "Unknown datetime string format", "dt"))
    ELSE Ok([frame EXCEPT !.rows =
                [k \in DOMAIN frame.rows |->
                    [frame.rows[k] EXCEPT !["dt"] = DtDate(ToDatetime(frame.rows[k]["dt"]))]]])

\* Series.astype(int) / astype(float) on one value; Unparsable when it
\* raises (a missing value has no int, text is no number).
AsInt(v) == IF v.t \in {"int", "float"} THEN IntV(v.i) ELSE Unparsable
AsFloat(v) ==
    IF v.t \in {"int", "float"} THEN FloatV(v.i)
    ELSE IF IsNull(v) THEN NULL
    ELSE Unparsable

\* .assign(order_id=..astype(int), order_value=..astype(float))
AssignOrders(frame) ==
    IF ~HasColumn(frame, "order_id") THEN Failed(Raise("KeyError", "", "order_id"))
    ELSE IF \E k \in DOMAIN frame.rows : AsInt(frame.rows[k]["order_id"]) = Unparsable
    THEN Failed(Raise("ValueError", "cannot convert", "order_id"))
    ELSE IF ~HasColumn(frame, "order_value") THEN Failed(Raise("KeyError", "", "order_value"))
    ELSE IF \E k \in DOMAIN frame.rows : AsFloat(frame.rows[k]["order_value"]) = Unparsable
    THEN Failed(Raise("ValueError", "cannot convert", "order_value"))
    ELSE Ok([frame EXCEPT !.rows =
                [k \in DOMAIN frame.rows |->
                    [frame.rows[k] EXCEPT !["order_id"] = AsInt(@),
                                          !["order_value"] = AsFloat(@)]]])

\* frame[[columns]]: the projection on a list of columns.
Project(frame, columns) ==
    IF \E k \in DOMAIN columns : ~HasColumn(frame, columns[k])
    THEN Failed(Raise("KeyError", "", "not in index"))
    ELSE Ok([columns |-> columns,
             rows |-> [k \in DOMAIN frame.rows |->
                          [c \in Range(columns) |-> frame.rows[k][c]]]])

\* Faulty variant of StageOrder: the product domain is not staged.
StageOrder_without_product == <<"erp", "crm", "web">>

\* The order in which stage_frames builds and inserts the staging tables.
StageOrder == <<"erp", "crm", "product", "web">>
StagingName(domain) ==
    CASE domain = "erp" -> "stg_erp_orders"
      [] domain = "crm" -> "stg_crm_leads"
      [] domain = "product" -> "stg_products"
      [] domain = "web" -> "stg_web_events"

\* The staging table of one domain, from that domain's raw frame alone.
StageDomain(domain, frame) ==
    LET dated == EnsureDateColumn(frame)
        assigned == IF domain = "erp" /\ dated.ok THEN AssignOrders(dated.frame) ELSE dated
    IN  IF ~assigned.ok THEN assigned
        ELSE Project(assigned.frame, StagingColumns(StagingName(domain)))

-----------------------------------------------------------------------------
(* SpecFact: build_fact on a staging mapping as stage_frames leaves it,    *)
(* then on the same tables inserted in another order with their rows in    *)
(* another order.                                                          *)

\* The inputs.  The columns build_fact never reads hold a missing value.
S1 == StrV(<<"S", "1">>)
S2 == StrV(<<"S", "2">>)
Keys == {<<S1, DateV(1)>>, <<S1, DateV(2)>>, <<S2, DateV(1)>>, <<NULL, DateV(1)>>}
OrderValues == {FloatV(1), FloatV(2), NULL}
Statuses == {Converted, StrV(<<"o", "p", "e", "n">>)}
EventIds == {IntV(7), NULL}
BlankRow(name) == [c \in Range(StagingColumns(name)) |-> NULL]
ErpRows ==
    {[BlankRow("stg_erp_orders") EXCEPT !["order_id"] = IntV(1), !["store_id"] = key[1],
                                        !["dt"] = key[2], !["order_value"] = v] :
        key \in Keys, v \in OrderValues}
CrmRows ==
    {[BlankRow("stg_crm_leads") EXCEPT !["lead_id"] = IntV(1), !["store_id"] = key[1],
                                       !["dt"] = key[2], !["status"] = s] :
        key \in Keys, s \in Statuses}
WebRows ==
    {[BlankRow("stg_web_events") EXCEPT !["event_id"] = e, !["store_id"] = key[1],
                                        !["dt"] = key[2]] :
        key \in Keys, e \in EventIds}
SeqsOf(S, n) == [1..n -> S]
Table(name, rows) == [name |-> name, frame |-> [columns |-> StagingColumns(name), rows |-> rows]]

\* The sizes of the three aggregated tables: at most `most` rows in all.
TableSizes(most) ==
    {m \in (0..most) \X (0..most) \X (0..most) : m[1] + m[2] + m[3] <= most}

Orders(n) == {p \in [1..n -> 1..n] : \A a, b \in 1..n : p[a] = p[b] => a = b}
Permuted(seq, p) == [k \in DOMAIN seq |-> seq[p[k]]]
\* The tables of `mapping` inserted in the order p, the rows of table k in
\* the order q[k].
Reordered(mapping, p, q) ==
    [k \in 1..4 |->
        [name |-> mapping[p[k]].name,
         frame |-> [columns |-> mapping[p[k]].frame.columns,
                    rows |-> Permuted(mapping[p[k]].frame.rows, q[p[k]])]]]

Idle == <<>>
\* A staging mapping as stage_frames returns it, of at most `most` rows.
StagedInit(most) ==
    /\ \E n \in TableSizes(most) :
         \E e \in SeqsOf(ErpRows, n[1]), c \in SeqsOf(CrmRows, n[2]), w \in SeqsOf(WebRows, n[3]) :
            staging = <<Table("stg_erp_orders", e), Table("stg_crm_leads", c),
                        Table("stg_products", <<>>), Table("stg_web_events", w)>>
    /\ fact = <<>>
    /\ fact0 = <<>>
    /\ fpc = "staged"
    /\ df = Idle /\ expectations = Idle /\ vpc = "idle" /\ vidx = 0 /\ messages = Idle
    /\ returned = Idle /\ evaluated = Idle /\ exc = NoExc
    /\ pc = "idle" /\ files = Idle /\ suites = Idle /\ raw_frames = Idle
    /\ outputs = Idle /\ disk_ok = TRUE /\ log = Idle /\ error = NoExc

\* fact = build_fact(staging)
FactBuild ==
    /\ fpc = "staged"
    /\ fact' = BuildFact(staging)
    /\ fact0' = fact'
    /\ fpc' = "built"
    /\ UNCHANGED <<staging, vvars, pvars>>

\* build_fact again, on the same tables staged in another order.
FactRebuild ==
    /\ fpc = "built"
    /\ \E p \in Orders(4) :
         \E q1 \in Orders(Len(staging[1].frame.rows)), q2 \in Orders(Len(staging[2].frame.rows)),
            q3 \in Orders(Len(staging[3].frame.rows)), q4 \in Orders(Len(staging[4].frame.rows)) :
            staging' = Reordered(staging, p, <<q1, q2, q3, q4>>)
    /\ fact' = BuildFact(staging')
    /\ fpc' = "rebuilt"
    /\ UNCHANGED <<fact0, vvars, pvars>>

SpecFact == StagedInit(MaxRows) /\ [][FactBuild]_vars

ReorderNext == FactBuild \/ FactRebuild
SpecReorder == StagedInit(MaxReorderRows) /\ [][ReorderNext]_vars

ValidateNext == ValidateStep \/ ValidateReturn
SpecValidate == ValidateInit /\ [][ValidateNext]_vars
-----------------------------------------------------------------------------
(* Spec: one run of run_pipeline(output_dir).                              *)

\* DOMAINS, in the order of the dict literal.
DOMAINS == <<"erp", "crm", "web", "product">>

\* The input files.  Missing stands for a sample file that is absent; a
\* raw file has the columns of its staging table and one record.
Missing == [columns |-> <<>>, rows |-> <<[missing |-> NULL]>>]
RawRow(domain) ==
    LET blank == BlankRow(StagingName(domain))
        keyed == [blank EXCEPT !["store_id"] = S1, !["dt"] = TsV(TicksPerDay + 1)]
    IN  CASE domain = "erp" ->
                [keyed EXCEPT !["order_id"] = IntV(1), !["order_value"] = IntV(2)]
          [] domain = "crm" -> [keyed EXCEPT !["lead_id"] = IntV(1), !["status"] = Converted]
          [] domain = "web" -> [keyed EXCEPT !["event_id"] = IntV(7)]
          [] domain = "product" -> [keyed EXCEPT !["product_id"] = IntV(1)]
RawFrame(domain, row) ==
    [columns |-> StagingColumns(StagingName(domain)), rows |-> <<row>>]
NotADate == StrV(<<"n", "o">>)
FileChoices(domain) ==
    {Missing,
     RawFrame(domain, RawRow(domain)),
     RawFrame(domain, [RawRow(domain) EXCEPT !["store_id"] = NULL]),
     RawFrame(domain, [RawRow(domain) EXCEPT !["dt"] = NotADate])}
SuiteChoices == {<<>>, <<NotNull("store_id")>>, <<NotNull("dt"), UnknownKind>>}
DomainSet == Range(DOMAINS)

Init ==
    /\ files \in [DomainSet -> UNION {FileChoices(d) : d \in DomainSet}]
    /\ \A d \in DomainSet : files[d] \in FileChoices(d)
    /\ suites \in [DomainSet -> SuiteChoices]
    /\ pc = "load"
    /\ raw_frames = <<>>
    /\ staging = <<>>
    /\ fact = <<>>
    /\ outputs = <<>>
    /\ log = <<>>
    /\ error = NoExc
    /\ df = Idle
    /\ messages = Idle
    /\ disk_ok = TRUE
    /\ fact0 = Idle /\ fpc = "idle"
    /\ expectations = Idle /\ vpc = "idle" /\ vidx = 0
    /\ returned = Idle /\ evaluated = Idle /\ exc = NoExc

Event(step, what) == <<step, what>>
\* The domain the for loop of run_pipeline is at.
Current == DOMAINS[Len(raw_frames) + 1]

\* df = _load_df(domain)
LoadDf ==
    /\ pc = "load"
    /\ log' = Append(log, Event("load", Current))
    /\ IF files[Current] = Missing
       THEN /\ error' = Raise("FileNotFoundError", "", Current)
            /\ pc' = "raised"
            /\ UNCHANGED df
       ELSE /\ df' = files[Current]
            /\ pc' = "validate"
            /\ UNCHANGED error
    /\ UNCHANGED <<files, suites, raw_frames, staging, fact, outputs, disk_ok, messages>>
    /\ UNCHANGED <<expectations, vpc, vidx, returned, evaluated, exc, fpc, fact0>>

\* Faulty variant of ValidateDomain: a failed validation is reported and the loop
\* goes on with the frame.
ValidateDomain_swallows ==
    /\ pc = "validate"
    /\ log' = Append(log, Event("validate", Current))
    /\ LET r == ValidateExpectations(df, suites[Current])
       IN  /\ error' = IF r.raised THEN r.exc ELSE error
           /\ messages' = r.messages
           /\ raw_frames' = Append(raw_frames, [name |-> Current, frame |-> df])
           /\ pc' = IF Len(raw_frames') = Len(DOMAINS) THEN "stage" ELSE "load"
    /\ UNCHANGED <<files, suites, df, staging, fact, outputs, disk_ok>>
    /\ UNCHANGED <<expectations, vpc, vidx, returned, evaluated, exc, fpc, fact0>>

\* messages = _validate_expectations(df, cfg["expectation"]); print(...);
\* raw_frames[domain] = df.  An exception leaves run_pipeline.
ValidateDomain ==
    /\ pc = "validate"
    /\ log' = Append(log, Event("validate", Current))
    /\ LET r == ValidateExpectations(df, suites[Current])
       IN  IF r.raised
           THEN /\ error' = r.exc
                /\ pc' = "raised"
                /\ UNCHANGED <<messages, raw_frames>>
           ELSE /\ messages' = r.messages
                /\ raw_frames' = Append(raw_frames, [name |-> Current, frame |-> df])
                /\ pc' = IF Len(raw_frames') = Len(DOMAINS) THEN "stage" ELSE "load"
                /\ UNCHANGED error
    /\ UNCHANGED <<files, suites, df, staging, fact, outputs, disk_ok>>
    /\ UNCHANGED <<expectations, vpc, vidx, returned, evaluated, exc, fpc, fact0>>

\* stage_frames(raw_frames), one staging table per step.
StageTable ==
    /\ pc = "stage"
    /\ LET domain == StageOrder[Len(staging) + 1]
           r == StageDomain(domain, Lookup(raw_frames, domain))
       IN  /\ log' = Append(log, Event("stage", domain))
           /\ IF r.ok
              THEN /\ staging' = Append(staging, [name |-> StagingName(domain), frame |-> r.frame])
                   /\ pc' = IF Len(staging') = Len(StageOrder) THEN "build_fact" ELSE "stage"
                   /\ UNCHANGED error
              ELSE /\ error' = r.exc
                   /\ pc' = "raised"
                   /\ UNCHANGED staging
    /\ UNCHANGED <<files, suites, df, messages, raw_frames, fact, outputs, disk_ok>>
    /\ UNCHANGED <<expectations, vpc, vidx, returned, evaluated, exc, fpc, fact0>>

\* fact = build_fact(staging)
RunBuildFact ==
    /\ pc = "build_fact"
    /\ log' = Append(log, Event("build_fact", ""))
    /\ fact' = BuildFact(staging)
    /\ fpc' = "built"
    /\ pc' = "write_outputs"
    /\ UNCHANGED <<files, suites, df, messages, raw_frames, staging, outputs, disk_ok, error>>
    /\ UNCHANGED <<expectations, vpc, vidx, returned, evaluated, exc, fact0>>

\* write_outputs: one to_csv per step, the staging tables in the order of
\* the mapping, then the fact table.
WriteFile ==
    /\ pc = "write_outputs"
    /\ disk_ok
    /\ LET k == Len(outputs) + 1
       IN  IF k <= Len(staging)
           THEN /\ outputs' = Append(outputs, [name |-> staging[k].name, rows |-> staging[k].frame.rows])
                /\ log' = Append(log, Event("write", staging[k].name))
                /\ pc' = "write_outputs"
           ELSE /\ outputs' = Append(outputs, [name |-> "fct_daily_store_metrics", rows |-> fact])
                /\ log' = Append(log, Event("write", "fct_daily_store_metrics"))
                /\ pc' = "done"
    /\ UNCHANGED <<files, suites, df, messages, raw_frames, staging, fact, disk_ok, error>>
    /\ UNCHANGED <<expectations, vpc, vidx, returned, evaluated, exc, fpc, fact0>>

\* The destination stops accepting writes (permissions, disk full): mkdir or
\* the next to_csv raises and the exception leaves run_pipeline.
WriteFails ==
    /\ pc = "write_outputs"
    /\ disk_ok
    /\ disk_ok' = FALSE
    /\ error' = Raise("OSError", "", "curated")
    /\ pc' = "raised"
    /\ UNCHANGED <<files, suites, df, messages, raw_frames, staging, fact, outputs, log>>
    /\ UNCHANGED <<expectations, vpc, vidx, returned, evaluated, exc, fpc, fact0>>

Next == LoadDf \/ ValidateDomain \/ StageTable \/ RunBuildFact \/ WriteFile \/ WriteFails
Spec == Init /\ [][Next]_vars
-----------------------------------------------------------------------------
(* Claims about run_pipeline (Spec).                                       *)

HasEvent(e) == \E k \in DOMAIN log : log[k] = e
Pos(e) == CHOOSE k \in DOMAIN log : log[k] = e
IsPrefix(a, b) == Len(a) <= Len(b) /\ \A k \in DOMAIN a : a[k] = b[k]
DomainIndex(d) == CHOOSE k \in DOMAIN DOMAINS : DOMAINS[k] = d
ValidationRaises(d) ==
    files[d] # Missing /\ ValidateExpectations(files[d], suites[d]).raised

\* C1: when the validation of a domain's dataset raises, the run ends there:
\* that validation is the last step executed, its exception is what the
\* caller gets, only the domains up to it were loaded or validated, nothing
\* is staged, no fact table is built, no artifact is written, and no further
\* step of the run can be taken.
C1_ValidationFailureAborts ==
    \A k \in DOMAIN log :
        (log[k][1] = "validate" /\ ValidationRaises(log[k][2])) =>
            /\ k = Len(log)
            /\ pc = "raised"
            /\ error = ValidateExpectations(files[log[k][2]], suites[log[k][2]]).exc
            /\ \A j \in DOMAIN log :
                  /\ log[j][1] \in {"load", "validate"}
                  /\ DomainIndex(log[j][2]) <= DomainIndex(log[k][2])
            /\ staging = <<>>
            /\ fact = <<>> /\ fpc # "built"
            /\ outputs = <<>>
            /\ ~ENABLED Next

\* The third domain fails its validation after two domains passed theirs.
C1_Witness ==
    /\ pc = "raised"
    /\ Len(log) = 6
    /\ log[6] = Event("validate", "web")
    /\ ValidationRaises("web")
    /\ Len(raw_frames) = 2

StepsOf(d) == {k \in DOMAIN log : log[k][2] = d}
\* The steps every run goes through, in order; a run executes a prefix.
FullRun ==
    <<Event("load", "erp"), Event("validate", "erp"), Event("load", "crm"),
      Event("validate", "crm"), Event("load", "web"), Event("validate", "web"),
      Event("load", "product"), Event("validate", "product"),
      Event("stage", "erp"), Event("stage", "crm"), Event("stage", "product"),
      Event("stage", "web"), Event("build_fact", ""),
      Event("write", "stg_erp_orders"), Event("write", "stg_crm_leads"),
      Event("write", "stg_products"), Event("write", "stg_web_events"),
      Event("write", "fct_daily_store_metrics")>>

\* Each domain is loaded, then validated, then staged, and staged only
\* after its own validation passed.
LoadValidateStage ==
    \A d \in DomainSet :
        /\ HasEvent(Event("validate", d)) =>
              HasEvent(Event("load", d)) /\ Pos(Event("load", d)) < Pos(Event("validate", d))
        /\ HasEvent(Event("stage", d)) =>
              /\ HasEvent(Event("validate", d))
              /\ Pos(Event("validate", d)) < Pos(Event("stage", d))
              /\ ~ValidationRaises(d)
\* build_fact begins only after the four domains completed staging.
FactAfterStaging ==
    HasEvent(Event("build_fact", "")) =>
        /\ \A d \in DomainSet :
              HasEvent(Event("stage", d)) /\ Pos(Event("stage", d)) < Pos(Event("build_fact", ""))
        /\ {staging[k].name : k \in DOMAIN staging} = {StagingName(d) : d \in DomainSet}
        /\ \A d \in DomainSet : StageDomain(d, files[d]).ok
\* Artifacts are written only after build_fact.
WriteAfterFact ==
    /\ \A k \in DOMAIN log :
          log[k][1] = "write" =>
              HasEvent(Event("build_fact", "")) /\ Pos(Event("build_fact", "")) < k
    /\ outputs # <<>> => fpc = "built"

\* C2 as stated: load, validate, stage per domain; the domains strictly one
\* after another (every step of a domain before every step of the next);
\* build_fact after the four stagings; writing after build_fact.
C2_Original_DomainsOneAfterAnother ==
    /\ LoadValidateStage
    /\ \A d1, d2 \in DomainSet :
          d1 # d2 =>
              \/ \A a \in StepsOf(d1), b \in StepsOf(d2) : a < b
              \/ \A a \in StepsOf(d1), b \in StepsOf(d2) : b < a
    /\ FactAfterStaging
    /\ WriteAfterFact

\* C2, amended: load, validate, stage per domain, a domain staged only after
\* its own validation passed; the domains are loaded and validated strictly
\* one after another (erp, crm, web, product); staging starts only once all
\* four are validated and then takes the domains one after another (erp,
\* crm, product, web); build_fact begins only after the four stagings and
\* writing only after build_fact.
C2_Amended_StagingAfterAllValidated ==
    /\ LoadValidateStage
    /\ IsPrefix(log, FullRun)
    /\ FactAfterStaging
    /\ WriteAfterFact

\* A run that went all the way: every domain staged, the fact table built
\* and written.
C2_Witness ==
    /\ pc = "done"
    /\ log = FullRun
    /\ Len(outputs) = 5
    /\ Len(fact) = 1
-----------------------------------------------------------------------------
(* Claims about _validate_expectations (SpecValidate).                     *)

Holds(k) == EvalRule(df, expectations[k]).ok
Violated == {k \in DOMAIN expectations : ~Holds(k)}
FirstViolated == CHOOSE k \in Violated : \A j \in Violated : k <= j
Finished == vpc \in {"returned", "raised"}
UpTo(n) == [k \in 1..n |-> k]

\* C3: the rules are evaluated one at a time in suite order and the loop
\* stops at the first rule that does not hold: the rules evaluated are
\* always the positions 1..n in order, every rule evaluated before the last
\* one held, and when the call raises, the exception is the one of the
\* lowest-indexed violated rule and no rule after that one was evaluated.
\* A suite with a violated rule never returns.
C3_StopsAtFirstViolatedRule ==
    /\ evaluated = UpTo(Len(evaluated))
    /\ \A k \in 1..(Len(evaluated) - 1) : Holds(k)
    /\ vpc = "raised" =>
          /\ Violated # {}
          /\ evaluated = UpTo(FirstViolated)
          /\ exc = EvalRule(df, expectations[FirstViolated])
    /\ (Finished /\ Violated # {}) => vpc = "raised"

\* The second of three rules fails, and the third, never evaluated, would
\* have failed with another exception.
C3_Witness ==
    /\ vpc = "raised"
    /\ Len(expectations) = 3
    /\ FirstViolated = 2
    /\ ~Holds(3)
    /\ EvalRule(df, expectations[3]) # exc
    /\ evaluated = <<1, 2>>

AllRecognized ==
    \A k \in DOMAIN expectations : expectations[k].expectation_type \in RecognizedKinds

\* C4: for a suite of recognized kinds only, a call that finds every rule
\* to hold returns one pass message per rule, in suite order; a call in
\* which a rule fails raises and hands the caller no message at all, the
\* messages of the rules that passed before it included.
C4_OneMessagePerRuleOrNone ==
    AllRecognized =>
        /\ vpc = "returned" =>
              /\ Violated = {}
              /\ Len(returned) = Len(expectations)
              /\ \A k \in DOMAIN expectations :
                    /\ returned[k].ok
                    /\ returned[k] = EvalRule(df, expectations[k])
        /\ vpc = "raised" => Violated # {} /\ returned = <<>>
        /\ vpc = "loop" => returned = <<>> /\ ENABLED ValidateNext
        /\ (Finished /\ Violated = {}) => vpc = "returned"

\* The third rule fails after two rules passed and left their messages in
\* the local list.
C4_Witness ==
    /\ AllRecognized
    /\ vpc = "raised"
    /\ Len(messages) = 2
    /\ returned = <<>>

UnknownAt(k) == expectations[k].expectation_type \notin RecognizedKinds
RaisedAt(k) == vpc = "raised" /\ Len(evaluated) = k

\* C5 as stated: a rule of an unrecognized kind makes the call raise the
\* UnsupportedRuleKind error naming the kind, exactly when all the rules
\* before it hold.
C5_Original_UnsupportedRuleKindError ==
    Finished =>
        \A k \in DOMAIN expectations :
            UnknownAt(k) =>
                ((\A j \in 1..(k - 1) : Holds(j))
                 <=> (/\ RaisedAt(k)
                      /\ exc.cls = "UnsupportedRuleKind"
                      /\ exc.arg = expectations[k].expectation_type))

\* C5, amended: a rule of an unrecognized kind makes the call raise
\* ExpectationFailure, the one exception class of the module, with the
\* message "Unsupported expectation type: <kind>", exactly when all the
\* rules before it hold; the rule is never passed over: a call that returns
\* has no such rule in its suite.
C5_Amended_UnsupportedRaisesExpectationFailure ==
    Finished =>
        /\ \A k \in DOMAIN expectations :
              UnknownAt(k) =>
                  ((\A j \in 1..(k - 1) : Holds(j))
                   <=> (/\ RaisedAt(k)
                        /\ exc.cls = "ExpectationFailure"
                        /\ exc.text = "Unsupported expectation type"
                        /\ exc.arg = expectations[k].expectation_type))
        /\ vpc = "returned" => \A k \in DOMAIN expectations : ~UnknownAt(k)

\* The unrecognized kind is the last of three rules and is reached.
C5_Witness ==
    /\ Len(expectations) = 3
    /\ UnknownAt(3) /\ ~UnknownAt(1) /\ ~UnknownAt(2)
    /\ RaisedAt(3)
    /\ exc.arg = "expect_unknown_thing"
    /\ Len(messages) = 2

\* The words of a regular expression, stated by cuts: w is in the language
\* of `atoms` when it splits into one non-empty run per atom, each run made
\* of characters of the atom's class and of length 1 unless the atom
\* repeats.
InLanguage(atoms, w) ==
    \E cut \in [0..Len(atoms) -> 0..Len(w)] :
        /\ cut[0] = 0
        /\ cut[Len(atoms)] = Len(w)
        /\ \A a \in 1..Len(atoms) :
              /\ cut[a - 1] < cut[a]
              /\ atoms[a].plus \/ cut[a] = cut[a - 1] + 1
              /\ \A m \in (cut[a - 1] + 1)..cut[a] : w[m] \in atoms[a].cls
\* The pattern matches the text over its whole length.
MatchesWhole(regex, w) == InLanguage(regex.atoms, w)
\* The pattern matches a leading part of the text; a closing `$` asks that
\* part to reach the end of the text (or the newline that ends it).
MatchesLeadingPart(regex, w) ==
    \E n \in 0..Len(w) :
        /\ InLanguage(regex.atoms, SubSeq(w, 1, n))
        /\ regex.eol => (n = Len(w) \/ (n = Len(w) - 1 /\ w[Len(w)] = "\n"))
IsRegexRule(k) ==
    expectations[k].expectation_type = "expect_column_values_to_match_regex"
Texts(k) ==
    LET col == Column(df, expectations[k].column)
    IN  {AsStr(col[r], Dtype(col)) : r \in DOMAIN col}
Passed(k) == k <= Len(messages)

\* C9 as stated: a regex rule that was evaluated passed only if every value
\* of its column, as text, matches the pattern over its whole length.
C9_Original_WholeLengthMatch ==
    \A k \in DOMAIN evaluated :
        (IsRegexRule(k) /\ Passed(k)) =>
            \A w \in Texts(k) : MatchesWhole(expectations[k].regex, w)

\* C9, amended: a regex rule holds exactly when the pattern matches a
\* leading part of every value of its column, as text (Series.str.match is
\* re.match): characters after the matched part do not fail the rule unless
\* the pattern itself ends in `$`.  When it does not hold, the call raises
\* ExpectationFailure naming the column.
C9_Amended_LeadingPartMatch ==
    \A k \in DOMAIN evaluated :
        IsRegexRule(k) =>
            /\ Passed(k) <=> \A w \in Texts(k) : MatchesLeadingPart(expectations[k].regex, w)
            /\ ~Passed(k) =>
                  /\ vpc = "raised"
                  /\ exc.cls = "ExpectationFailure"
                  /\ exc.text = "Regex validation failed for"
                  /\ exc.arg = expectations[k].column

\* The rule a+ passes on the value "a@", of which only the leading "a"
\* matches.
C9_Witness ==
    \E k \in DOMAIN evaluated :
        /\ expectations[k] = MatchRegex("email", APlus)
        /\ Passed(k)
        /\ \E r \in DOMAIN df.rows : df.rows[r]["email"] = StrV(<<"a", "@">>)
-----------------------------------------------------------------------------
(* Claims about build_fact (SpecFact, SpecReorder).                        *)

Staged(name) == staging[CHOOSE k \in DOMAIN staging : staging[k].name = name].frame.rows
PairsOf(rows) == {<<rows[k]["store_id"], rows[k]["dt"]>> : k \in DOMAIN rows}
ObservedPairs ==
    PairsOf(Staged("stg_erp_orders")) \cup PairsOf(Staged("stg_crm_leads"))
        \cup PairsOf(Staged("stg_web_events"))
Complete(pair) == ~IsNull(pair[1]) /\ ~IsNull(pair[2])
FactPair(k) == <<fact[k]["store_id"], fact[k]["dt"]>>
NoPairTwice == \A a, b \in DOMAIN fact : FactPair(a) = FactPair(b) => a = b

\* C6 as stated: the fact table has exactly one row per distinct
\* (store_id, date) pair that occurs in the orders, the leads or the web
\* events.
C6_Original_OneRowPerObservedPair ==
    fpc = "built" =>
        /\ {FactPair(k) : k \in DOMAIN fact} = ObservedPairs
        /\ NoPairTwice

\* C6, amended: the fact table has exactly one row per distinct
\* (store_id, date) pair that occurs, with neither value missing, in the
\* orders, the leads or the web events (also when it occurs in only one of
\* them); rows whose store_id or date is missing are dropped by the
\* grouping and give no fact row.
C6_Amended_OneRowPerCompletePair ==
    fpc = "built" =>
        /\ {FactPair(k) : k \in DOMAIN fact} = {p \in ObservedPairs : Complete(p)}
        /\ NoPairTwice
        /\ Len(fact) = Cardinality({p \in ObservedPairs : Complete(p)})

\* Three pairs, each occurring in one table only, give three fact rows.
C6_Witness ==
    /\ fpc = "built"
    /\ Len(fact) = 3
    /\ Len(Staged("stg_erp_orders")) = 1
    /\ Len(Staged("stg_crm_leads")) = 1
    /\ Len(Staged("stg_web_events")) = 1

WithPair(rows, pair) ==
    {k \in DOMAIN rows : <<rows[k]["store_id"], rows[k]["dt"]>> = pair}
RECURSIVE TotalOrderValue(_, _)
\* The sum of order_value over the rows at `idx`, a missing value adding
\* nothing.
TotalOrderValue(rows, idx) ==
    IF idx = {} THEN 0
    ELSE LET k == CHOOSE j \in idx : TRUE
         IN  (IF IsNull(rows[k]["order_value"]) THEN 0 ELSE rows[k]["order_value"].i)
             + TotalOrderValue(rows, idx \ {k})
NoMetricMissing(k) == \A m \in Metrics : ~IsNull(fact[k][m])
OrderMetrics(k) ==
    LET orders == Staged("stg_erp_orders")
    IN  /\ fact[k]["revenue"].i = TotalOrderValue(orders, WithPair(orders, FactPair(k)))
        /\ fact[k]["order_count"].i = Cardinality(WithPair(orders, FactPair(k)))
LeadMetrics(k) ==
    LET leads == Staged("stg_crm_leads")
    IN  fact[k]["converted_leads"].i =
            Cardinality({j \in WithPair(leads, FactPair(k)) : leads[j]["status"] = Converted})

\* C7 as stated: revenue and order_count are the sum of order_value and the
\* number of the orders of the row's pair, converted_leads the number of
\* its converted leads, sessions the number of its web events; no metric is
\* missing.
C7_Original_SessionsCountsRows ==
    fpc = "built" =>
        \A k \in DOMAIN fact :
            /\ NoMetricMissing(k)
            /\ OrderMetrics(k)
            /\ LeadMetrics(k)
            /\ fact[k]["sessions"].i =
                  Cardinality(WithPair(Staged("stg_web_events"), FactPair(k)))

\* C7, amended: as stated, except that sessions is the number of the web
\* events of the row's pair whose event_id is not missing ("count" counts
\* values, not rows), and a missing order_value adds nothing to revenue.
\* A metric whose table has no row for the pair is 0, never missing.
C7_Amended_SessionsCountsEventIds ==
    fpc = "built" =>
        \A k \in DOMAIN fact :
            /\ NoMetricMissing(k)
            /\ OrderMetrics(k)
            /\ LeadMetrics(k)
            /\ fact[k]["sessions"].i =
                  Cardinality({j \in WithPair(Staged("stg_web_events"), FactPair(k)) :
                                  ~IsNull(Staged("stg_web_events")[j]["event_id"])})

\* A pair that occurs in the web events only: revenue, order_count and
\* converted_leads are 0 and sessions is its two events.
C7_Witness ==
    /\ fpc = "built"
    /\ \E k \in DOMAIN fact :
          /\ FactPair(k) \notin PairsOf(Staged("stg_erp_orders"))
          /\ FactPair(k) \notin PairsOf(Staged("stg_crm_leads"))
          /\ fact[k]["revenue"] = IntV(0)
          /\ fact[k]["order_count"] = IntV(0)
          /\ fact[k]["converted_leads"] = IntV(0)
          /\ fact[k]["sessions"] = IntV(2)

StrictlyBefore(r1, r2) ==
    \/ ValLess(r1["store_id"], r2["store_id"])
    \/ (r1["store_id"] = r2["store_id"] /\ ValLess(r1["dt"], r2["dt"]))

\* C10: the rows of the fact table are in ascending order of
\* (store_id, date), store_id first: each row is strictly before the next.
C10_FactSortedByStoreThenDate ==
    fpc = "built" =>
        \A k \in 1..(Len(fact) - 1) : StrictlyBefore(fact[k], fact[k + 1])

\* Three rows: the later date of the first store comes before the earlier
\* date of the second store.
C10_Witness ==
    /\ fpc = "built"
    /\ Len(fact) = 3
    /\ FactPair(2) = <<S1, DateV(2)>>
    /\ FactPair(3) = <<S2, DateV(1)>>

=============================================================================
